---- MODULE Spec2Model ----
(***************************************************************************)
(* Model of the chat backend of Maritime_AI (server.js, kept in README.md  *)
(* from line 103 on): the POST /chat handler, the geocoder, the marine     *)
(* probe and resolver and the land-weather fallback.                       *)
(*                                                                         *)
(* One behaviour is one request.  The handler is an async function: it     *)
(* runs to its next await, and each action below is one settlement of an   *)
(* outstanding upstream call together with everything the handler does     *)
(* synchronously in reaction to it (JavaScript runs to completion).        *)
(*                                                                         *)
(* Coordinates are integers in hundredths of a degree.  A message is a     *)
(* sequence of whitespace-separated tokens; " " is a whitespace token that *)
(* only occurs at the ends of a raw message.  The fields time and waveDir  *)
(* of a marine reading and the numeric value of the distance are carried   *)
(* by no variable: they only flow into the reply text.                     *)
(*                                                                         *)
(* The second part models the chat transcript of the frontend (App.jsx):   *)
(* the React state mode, input, busy and messages, the calls of send and   *)
(* the speech-recognition sessions, each with the render whose closure it  *)
(* holds.  The display-only state listening and transcript is left out.    *)
(***************************************************************************)
EXTENDS Integers, Sequences, FiniteSets, TLC

VARIABLES body, pc, flow, responses, geo, place, probes, inflight,
          nullCount, lastProbe, marine, landCalls, nmComputed,
          mode, input, busy, messages, sends, recs, uploads

serverVars == <<body, pc, flow, responses, geo, place, probes, inflight,
                nullCount, lastProbe, marine, landCalls, nmComputed>>

uiVars == <<mode, input, busy, messages, sends, recs, uploads>>

vars == <<serverVars, uiVars>>

(* ---------------- bounds of the model ---------------- *)
MaxDeg == 1
MaxWave == 4
MaxSends == 2
MaxUploads == 1

(* ---------------- JSON values ---------------- *)
Undef == [t |-> "undef", v |-> 0]
Null == [t |-> "null", v |-> 0]
Num(n) == [t |-> "num", v |-> n]
Str(n) == [t |-> "str", v |-> n]

\* x ?? null
Coalesce(x) == IF x.t = "undef" THEN Null ELSE x

\* x != null
NotNullish(x) == x.t \notin {"null", "undef"}

(* ---------------- request bodies ---------------- *)
Messages ==
  { <<>>,
    <<" ">>,
    <<"hello", "there">>,
    <<" ", "distance", "Oslo", "to", "Rome", " ">>,
    <<"DISTANCE", "Oslo", "->", "Rome">>,
    <<"distance", "Oslo", "to", "Rome", "to", "Pisa">>,
    <<"distance", "42", "to", "Rome">>,
    <<"distance", "to", "Rome">>,
    <<"weather", "at", "Oslo">>,
    <<"Weather", "in", "Rome", " ">>,
    <<"weather", "at", "42">>,
    <<"weather", "in", "distance", "Oslo", "to", "Rome">> }

Bodies ==
  { [kind |-> "str", toks |-> m] : m \in Messages }
    \cup { [kind |-> k, toks |-> <<>>] : k \in {"absent", "falsy", "nonstr"} }

RECURSIVE TrimLeft(_)
TrimLeft(s) ==
  IF s # <<>> /\ Head(s) = " " THEN TrimLeft(Tail(s)) ELSE s

RECURSIVE TrimRight(_)
TrimRight(s) ==
  IF s # <<>> /\ s[Len(s)] = " " THEN TrimRight(SubSeq(s, 1, Len(s) - 1)) ELSE s

\* String.prototype.trim
Trim(s) == TrimRight(TrimLeft(s))

\* (req.body?.message || "").trim(), for a body whose message is a string,
\* missing, or falsy
MessageOf(b) == IF b.kind = "str" THEN Trim(b.toks) ELSE <<>>

\* a truthy message that is not a string has no trim method
TrimThrows(b) == b.kind = "nonstr"

(* ---------------- the two patterns ---------------- *)
\* the i flag
Lower(t) ==
  CASE t = "DISTANCE" -> "distance"
    [] t = "Weather" -> "weather"
    [] OTHER -> t

\* a token of [A-Za-z]+
IsLetters(t) == t \notin {"->", "42", " "}

\* tokens a..b form a non-empty [A-Za-z\s]+ name
IsName(m, a, b) == a <= b /\ \A k \in a..b : IsLetters(m[k])

DistAt(m, i, j) ==
  /\ Lower(m[i]) = "distance"
  /\ Lower(m[j]) \in {"to", "->"}
  /\ IsName(m, i + 1, j - 1)
  /\ IsName(m, j + 1, Len(m))

NoMatch == [ok |-> FALSE, a |-> <<>>, b |-> <<>>]

\* message.match(/distance\s+([A-Za-z\s]+?)\s+(?:to|->)\s+([A-Za-z\s]+)$/i):
\* leftmost start, lazy first group
distMatch(m) ==
  IF \E i \in 1..Len(m), j \in 1..Len(m) : i < j /\ DistAt(m, i, j)
  THEN LET i == CHOOSE x \in 1..Len(m) :
                  /\ \E j \in x + 1..Len(m) : DistAt(m, x, j)
                  /\ \A y \in 1..x - 1 : ~ \E j \in y + 1..Len(m) : DistAt(m, y, j)
           j == CHOOSE x \in i + 1..Len(m) :
                  /\ DistAt(m, i, x)
                  /\ \A y \in i + 1..x - 1 : ~ DistAt(m, i, y)
       IN [ok |-> TRUE, a |-> SubSeq(m, i + 1, j - 1), b |-> SubSeq(m, j + 1, Len(m))]
  ELSE NoMatch

WeatherAt(m, i) ==
  /\ i + 1 <= Len(m)
  /\ Lower(m[i]) = "weather"
  /\ Lower(m[i + 1]) \in {"at", "in"}
  /\ IsName(m, i + 2, Len(m))

\* message.match(/weather\s+(?:at|in)\s+([A-Za-z\s]+)$/i)
weatherMatch(m) ==
  IF \E i \in 1..Len(m) : WeatherAt(m, i)
  THEN LET i == CHOOSE x \in 1..Len(m) :
                  WeatherAt(m, x) /\ \A y \in 1..x - 1 : ~ WeatherAt(m, y)
       IN [ok |-> TRUE, a |-> SubSeq(m, i + 2, Len(m)), b |-> <<>>]
  ELSE NoMatch

\* the if-chain of the handler
RouteSwapped(m) ==
  IF m = <<>> THEN "prompt"
  ELSE IF weatherMatch(m).ok THEN "weather"
  ELSE IF distMatch(m).ok THEN "distance"
  ELSE "echo"

Route(m) ==
  IF m = <<>> THEN "prompt"
  ELSE IF distMatch(m).ok THEN "distance"
  ELSE IF weatherMatch(m).ok THEN "weather"
  ELSE "echo"

(* ---------------- replies ---------------- *)
Reply(kind, text) == [kind |-> kind, text |-> text, storm |-> FALSE]
NoReply == Reply("none", <<>>)
Ok(reply) == [status |-> 200, reply |-> reply]

(* ---------------- geocoder ---------------- *)
GeoLats == { 100 * k : k \in 0..MaxDeg }
GeoLons == { 100 * k + 50 : k \in 0..MaxDeg }

GeoResponses ==
  { [kind |-> k, results |-> "none", lat |-> 0, lon |-> 0] :
      k \in {"reject", "notok", "badjson", "ok"} }
    \cup { [kind |-> "ok", results |-> "first", lat |-> la, lon |-> lo] :
             la \in GeoLats, lo \in GeoLons }

GeoState(kind, name, lat, lon) == [kind |-> kind, name |-> name, lat |-> lat, lon |-> lon]
GeoIdle == GeoState("idle", <<>>, 0, 0)

\* geocodePlace(name), given what the upstream answers; the service's
\* canonical name is taken to be the queried name
geocodePlace(name, r) ==
  IF r.kind = "reject" THEN GeoState("throw", name, 0, 0)
  ELSE IF r.kind = "notok" THEN GeoState("null", name, 0, 0)
  ELSE IF r.kind = "badjson" THEN GeoState("throw", name, 0, 0)
  ELSE IF r.results # "first" THEN GeoState("null", name, 0, 0)
  ELSE GeoState("place", name, r.lat, r.lon)

\* Promise.all over the two lookups
PromiseAllEager(g) ==
  IF \E i \in DOMAIN g : g[i].kind = "throw" THEN "rejected"
  ELSE IF g[1].kind = "null" THEN "fulfilled"
  ELSE IF \A i \in DOMAIN g : g[i].kind \in {"null", "place"} THEN "fulfilled"
  ELSE "pending"

PromiseAll(g) ==
  IF \E i \in DOMAIN g : g[i].kind = "throw" THEN "rejected"
  ELSE IF \A i \in DOMAIN g : g[i].kind \in {"null", "place"} THEN "fulfilled"
  ELSE "pending"

\* the reply of the distance flow once Promise.all has fulfilled
DistanceReply(from, to) ==
  IF from.kind # "place" THEN Reply("notfound", from.name)
  ELSE IF to.kind # "place" THEN Reply("notfound", to.name)
  ELSE Reply("distance", from.name \o <<"->">> \o to.name)

(* ---------------- marine probe and resolver ---------------- *)
WaveVals == {Undef, Null, Str(4)} \cup { Num(n) : n \in 2..MaxWave }
WindVals == {Undef, Null, Num(5)}

MarineResponses ==
  { [kind |-> k, hourly |-> "absent", wave |-> Undef, wind |-> Undef] :
      k \in {"reject", "notok", "badjson"} }
    \cup { [kind |-> "ok", hourly |-> h, wave |-> Undef, wind |-> Undef] :
             h \in {"absent", "empty"} }
    \cup { [kind |-> "ok", hourly |-> "data", wave |-> w, wind |-> x] :
             w \in WaveVals, x \in WindVals }

NoResponse == [kind |-> "none", hourly |-> "absent", wave |-> Undef, wind |-> Undef]

Cand(kind, wave, wind, lat, lon) ==
  [kind |-> kind, wave |-> wave, wind |-> wind, usedLat |-> lat, usedLon |-> lon]
NoCand == Cand("none", Null, Null, 0, 0)

\* tryMarine(lat, lon), given what the upstream answers
tryMarine(lat, lon, r) ==
  IF r.kind = "reject" THEN Cand("throw", Null, Null, lat, lon)
  ELSE IF r.kind = "notok" THEN Cand("null", Null, Null, lat, lon)
  ELSE IF r.kind = "badjson" THEN Cand("throw", Null, Null, lat, lon)
  ELSE IF r.hourly # "data" THEN Cand("null", Null, Null, lat, lon)
  ELSE Cand("reading", Coalesce(r.wave), Coalesce(r.wind), lat, lon)

offsets == <<0, 25, -25, 50, -50, 75, -75, 100, -100>>

NumCandidates == Len(offsets) * Len(offsets)

\* the k-th point the double loop of getMarineWeatherNear visits
CandidateLonOuter(lat, lon, k) ==
  <<lat + offsets[((k - 1) % Len(offsets)) + 1],
    lon + offsets[((k - 1) \div Len(offsets)) + 1]>>

Candidate(lat, lon, k) ==
  <<lat + offsets[((k - 1) \div Len(offsets)) + 1],
    lon + offsets[((k - 1) % Len(offsets)) + 1]>>

\* marine && (marine.wave != null || marine.wind != null)
UsableMarine(m) ==
  m.kind = "reading" /\ (NotNullish(m.wave) \/ NotNullish(m.wind))

\* typeof marine.wave === "number" && marine.wave > 3
StormAlertAtLeast(w) == w.t = "num" /\ w.v >= 3

StormAlert(w) == w.t = "num" /\ w.v > 3

MarineReply(p, m) ==
  [kind |-> "marine", text |-> p.name, storm |-> StormAlert(m.wave)]

(* ---------------- land fallback ---------------- *)
LandResponses ==
  { [kind |-> k, current |-> "absent"] : k \in {"reject", "notok", "badjson", "ok"} }
    \cup { [kind |-> "ok", current |-> "present"] }

\* getLandWeather(lat, lon), given what the upstream answers
getLandWeather(r) ==
  IF r.kind = "reject" THEN "throw"
  ELSE IF r.kind = "notok" THEN "null"
  ELSE IF r.kind = "badjson" THEN "throw"
  ELSE IF r.current = "present" THEN "land"
  ELSE "null"

(* ---------------- frontend state ---------------- *)
Msg(role, content, by) == [role |-> role, content |-> content, by |-> by]

\* useState of messages: the greeting
Greeting == Msg("assistant", <<"Ahoy!">>, 0)

NoFetch == [kind |-> "none", reply |-> <<>>, error |-> <<>>]

\* a call of send: the mode its closure holds, the mode of the app when it
\* was called, its trimmed content and, once settled, what fetch produced
NoSend ==
  [phase |-> "none", cmode |-> "chat", callMode |-> "chat", content |-> <<>>,
   got |-> NoFetch]

UiInit ==
  /\ mode = "chat"
  /\ input = <<>>
  /\ busy = FALSE
  /\ messages = <<Greeting>>
  /\ sends = [s \in 1..MaxSends |-> NoSend]
  /\ recs = {}
  /\ uploads = [made |-> 0, pending |-> 0]

(* ---------------- the handler ---------------- *)
HandlerIdle ==
  /\ pc = "start"
  /\ flow = "none"
  /\ responses = <<>>
  /\ geo = [i \in 1..2 |-> GeoIdle]
  /\ place = GeoIdle
  /\ probes = <<>>
  /\ inflight = {}
  /\ nullCount = 0
  /\ lastProbe = [idx |-> 0, resp |-> NoResponse, result |-> NoCand]
  /\ marine = NoCand
  /\ landCalls = <<>>
  /\ nmComputed = FALSE

Init ==
  /\ body \in Bodies
  /\ HandlerIdle
  /\ UiInit

Finish(reply) ==
  /\ responses' = Append(responses, Ok(reply))
  /\ pc' = "done"

\* message is a truthy non-string: trim throws outside every try block; the
\* rejected handler promise is either dropped (no response is ever sent) or
\* turned into a 500 by the framework's error handler
RejectBody ==
  /\ pc = "start"
  /\ TrimThrows(body)
  /\ pc' = "crashed"
  /\ flow' = "crash"
  /\ \/ responses' = responses
     \/ responses' = Append(responses, [status |-> 500, reply |-> NoReply])
  /\ UNCHANGED uiVars
  /\ UNCHANGED <<body, geo, place, probes, inflight, nullCount, lastProbe,
                 marine, landCalls, nmComputed>>

EmptyMessage ==
  /\ pc = "start"
  /\ ~ TrimThrows(body)
  /\ Route(MessageOf(body)) = "prompt"
  /\ flow' = "prompt"
  /\ Finish(Reply("prompt", <<>>))
  /\ UNCHANGED uiVars
  /\ UNCHANGED <<body, geo, place, probes, inflight, nullCount, lastProbe,
                 marine, landCalls, nmComputed>>

\* both geocodePlace calls run to their await fetch before Promise.all is awaited
StartDistance ==
  /\ pc = "start"
  /\ ~ TrimThrows(body)
  /\ Route(MessageOf(body)) = "distance"
  /\ flow' = "distance"
  /\ LET d == distMatch(MessageOf(body))
     IN geo' = [i \in 1..2 |->
                  GeoState("fetching", IF i = 1 THEN d.a ELSE d.b, 0, 0)]
  /\ pc' = "distance"
  /\ UNCHANGED uiVars
  /\ UNCHANGED <<body, responses, place, probes, inflight, nullCount,
                 lastProbe, marine, landCalls, nmComputed>>

\* one lookup of the distance flow settles; the handler, if it still awaits
\* Promise.all, resumes as soon as that promise settles
GeoSettle(i, r) ==
  /\ geo[i].kind = "fetching"
  /\ geo' = [geo EXCEPT ![i] = geocodePlace(geo[i].name, r)]
  /\ IF pc = "distance" /\ PromiseAll(geo') = "rejected"
     THEN Finish(Reply("distance_error", <<>>)) /\ UNCHANGED nmComputed
     ELSE IF pc = "distance" /\ PromiseAll(geo') = "fulfilled"
     THEN /\ Finish(DistanceReply(geo'[1], geo'[2]))
          /\ nmComputed' = (DistanceReply(geo'[1], geo'[2]).kind = "distance")
     ELSE UNCHANGED <<pc, responses, nmComputed>>
  /\ UNCHANGED uiVars
  /\ UNCHANGED <<body, flow, place, probes, inflight, nullCount, lastProbe,
                 marine, landCalls>>

StartWeather ==
  /\ pc = "start"
  /\ ~ TrimThrows(body)
  /\ Route(MessageOf(body)) = "weather"
  /\ flow' = "weather"
  /\ place' = GeoState("fetching", weatherMatch(MessageOf(body)).a, 0, 0)
  /\ pc' = "geocode"
  /\ UNCHANGED uiVars
  /\ UNCHANGED <<body, responses, geo, probes, inflight, nullCount,
                 lastProbe, marine, landCalls, nmComputed>>

\* the geocode of the weather flow settles; on a Place the resolver issues
\* its first probe
WeatherGeoSettle(r) ==
  /\ pc = "geocode"
  /\ place.kind = "fetching"
  /\ LET p == geocodePlace(place.name, r)
     IN /\ place' = p
        /\ IF p.kind = "throw"
           THEN Finish(Reply("weather_error", <<>>)) /\ UNCHANGED <<probes, inflight>>
           ELSE IF p.kind = "null"
           THEN Finish(Reply("notfound", p.name)) /\ UNCHANGED <<probes, inflight>>
           ELSE /\ probes' = <<Candidate(p.lat, p.lon, 1)>>
                /\ inflight' = {1}
                /\ pc' = "marine"
                /\ UNCHANGED responses
  /\ UNCHANGED uiVars
  /\ UNCHANGED <<body, flow, geo, nullCount, lastProbe, marine, landCalls,
                 nmComputed>>

\* steps 2 and 3 of the weather flow once getMarineWeatherNear has returned m
AfterMarine(m) ==
  /\ marine' = m
  /\ IF UsableMarine(m)
     THEN Finish(MarineReply(place, m)) /\ UNCHANGED landCalls
     ELSE /\ landCalls' = Append(landCalls, <<place.lat, place.lon>>)
          /\ pc' = "land"
          /\ UNCHANGED responses

\* the probe in flight settles
ProbeSettle(r) ==
  /\ pc = "marine"
  /\ inflight = {Len(probes)}
  /\ LET k == Len(probes)
         c == tryMarine(probes[k][1], probes[k][2], r)
     IN /\ lastProbe' = [idx |-> k, resp |-> r, result |-> c]
        /\ IF c.kind = "throw"
           THEN /\ Finish(Reply("weather_error", <<>>))
                /\ inflight' = {}
                /\ UNCHANGED <<probes, nullCount, marine, landCalls>>
           ELSE IF c.kind = "null" /\ k < NumCandidates
           THEN /\ probes' = Append(probes, Candidate(place.lat, place.lon, k + 1))
                /\ inflight' = {k + 1}
                /\ nullCount' = nullCount + 1
                /\ UNCHANGED <<pc, responses, marine, landCalls>>
           ELSE IF c.kind = "null"
           THEN /\ inflight' = {}
                /\ nullCount' = nullCount + 1
                /\ AfterMarine(Cand("null", Null, Null, 0, 0))
                /\ UNCHANGED probes
           ELSE /\ inflight' = {}
                /\ AfterMarine(c)
                /\ UNCHANGED <<probes, nullCount>>
  /\ UNCHANGED uiVars
  /\ UNCHANGED <<body, flow, geo, place, nmComputed>>

\* the land lookup settles
LandSettle(r) ==
  /\ pc = "land"
  /\ LET l == getLandWeather(r)
     IN IF l = "throw" THEN Finish(Reply("weather_error", <<>>))
        ELSE IF l = "land" THEN Finish(Reply("land", place.name))
        ELSE Finish(Reply("weather_error_both", <<>>))
  /\ UNCHANGED uiVars
  /\ UNCHANGED <<body, flow, geo, place, probes, inflight, nullCount,
                 lastProbe, marine, landCalls, nmComputed>>

Echo ==
  /\ pc = "start"
  /\ ~ TrimThrows(body)
  /\ Route(MessageOf(body)) = "echo"
  /\ flow' = "echo"
  /\ Finish(Reply("echo", MessageOf(body)))
  /\ UNCHANGED uiVars
  /\ UNCHANGED <<body, geo, place, probes, inflight, nullCount, lastProbe,
                 marine, landCalls, nmComputed>>

Next ==
  \/ RejectBody
  \/ EmptyMessage
  \/ StartDistance
  \/ \E i \in 1..2, r \in GeoResponses : GeoSettle(i, r)
  \/ StartWeather
  \/ \E r \in GeoResponses : WeatherGeoSettle(r)
  \/ \E r \in MarineResponses : ProbeSettle(r)
  \/ \E r \in LandResponses : LandSettle(r)
  \/ Echo

Spec == Init /\ [][Next]_vars

(* ---------------- frontend: send, speech recognition, uploads ---------------- *)
\* what can be typed into the input box, and what a recognition can hear
Inputs == { <<>>, <<" ">>, <<" ", "hello", " ">> }
Spoken == { <<" ">>, <<"ahoy">> }

FetchOutcomes ==
  { [kind |-> k, reply |-> <<>>, error |-> <<>>] : k \in {"reject", "badjson"} }
    \cup { [kind |-> "json", reply |-> <<"reply">>, error |-> <<>>],
            [kind |-> "json", reply |-> <<>>, error |-> <<"error">>],
            [kind |-> "json", reply |-> <<>>, error |-> <<>>] }

\* apiFetch(path, options), given what fetch and res.json() produce
apiFetch(o) ==
  IF o.kind \in {"reject", "badjson"}
  THEN [reply |-> <<>>, error |-> <<"Cannot reach">>]
  ELSE [reply |-> o.reply, error |-> o.error]

\* data?.reply || data?.error || "(no reply)"
ReplyOf(data) ==
  IF data.reply # <<>> THEN data.reply
  ELSE IF data.error # <<>> THEN data.error
  ELSE <<"(no reply)">>

SendsMade == Cardinality({ s \in 1..MaxSends : sends[s].phase # "none" })

\* send(text) of the render whose mode is cmode, up to its await; content is
\* the trimmed text and is not empty
SendCall(cmode, content) ==
  /\ SendsMade < MaxSends
  /\ LET s == SendsMade + 1
     IN /\ sends' = [sends EXCEPT ![s] =
                       [phase |-> "inflight", cmode |-> cmode, callMode |-> mode,
                        content |-> content, got |-> NoFetch]]
        /\ input' = <<>>
        /\ IF cmode = "chat"
           THEN /\ messages' = Append(messages, Msg("user", content, s))
                /\ busy' = TRUE
           ELSE UNCHANGED <<messages, busy>>

\* the mode buttons
SetMode(m) ==
  /\ m # mode
  /\ mode' = m
  /\ UNCHANGED <<input, busy, messages, sends, recs, uploads>>
  /\ UNCHANGED serverVars

\* typing; the input box is rendered in chat mode only
SetInput(v) ==
  /\ mode = "chat"
  /\ v # input
  /\ input' = v
  /\ UNCHANGED <<mode, busy, messages, sends, recs, uploads>>
  /\ UNCHANGED serverVars

\* Enter or the send button: send() of the current render
SendTyped ==
  /\ mode = "chat"
  /\ Trim(input) # <<>>
  /\ SendCall(mode, Trim(input))
  /\ UNCHANGED <<mode, recs, uploads>>
  /\ UNCHANGED serverVars

\* the mic button (shown in both modes): rec.onresult keeps the send of the
\* render in which startListening ran
StartListening ==
  /\ mode \notin recs
  /\ recs' = recs \cup {mode}
  /\ UNCHANGED <<mode, input, busy, messages, sends, uploads>>
  /\ UNCHANGED serverVars

\* rec.onresult with a final text, which ends the session (continuous = false)
RecResult(c, text) ==
  /\ c \in recs
  /\ recs' = recs \ {c}
  /\ IF Trim(text) = <<>>
     THEN UNCHANGED <<input, busy, messages, sends>>
     ELSE SendCall(c, Trim(text))
  /\ UNCHANGED <<mode, uploads>>
  /\ UNCHANGED serverVars

\* rec.onend without a final result
RecEnd(c) ==
  /\ c \in recs
  /\ recs' = recs \ {c}
  /\ UNCHANGED <<mode, input, busy, messages, sends, uploads>>
  /\ UNCHANGED serverVars

\* the request of send s settles and send runs from its await to its end
SendSettle(s, o) ==
  /\ sends[s].phase = "inflight"
  /\ busy' = FALSE
  /\ sends' = [sends EXCEPT ![s].phase = "done", ![s].got = o]
  /\ IF sends[s].cmode = "chat"
     THEN messages' = Append(messages, Msg("assistant", ReplyOf(apiFetch(o)), s))
     ELSE UNCHANGED messages
  /\ UNCHANGED <<mode, input, recs, uploads>>
  /\ UNCHANGED serverVars

\* handleFile: the file inputs are rendered in chat mode only
HandleFile ==
  /\ mode = "chat"
  /\ uploads.made < MaxUploads
  /\ uploads' = [made |-> uploads.made + 1, pending |-> uploads.pending + 1]
  /\ messages' = Append(messages, Msg("user", <<"Uploading">>, 0))
  /\ UNCHANGED <<mode, input, busy, sends, recs>>
  /\ UNCHANGED serverVars

\* the upload's promise chain settles; a rejection is handled by nobody
UploadSettle(o) ==
  /\ uploads.pending > 0
  /\ uploads' = [uploads EXCEPT !.pending = uploads.pending - 1]
  /\ IF o = "reject" THEN UNCHANGED messages
     ELSE IF o = "error"
     THEN messages' = Append(messages, Msg("assistant", <<"error">>, 0))
     ELSE messages' = Append(messages, Msg("assistant", <<"uploaded">>, 0))
  /\ UNCHANGED <<mode, input, busy, sends, recs>>
  /\ UNCHANGED serverVars

InitUI ==
  /\ body = [kind |-> "absent", toks |-> <<>>]
  /\ HandlerIdle
  /\ UiInit

NextUI ==
  \/ \E m \in {"chat", "voice"} : SetMode(m)
  \/ \E v \in Inputs : SetInput(v)
  \/ SendTyped
  \/ StartListening
  \/ \E c \in {"chat", "voice"}, t \in Spoken : RecResult(c, t)
  \/ \E c \in {"chat", "voice"} : RecEnd(c)
  \/ \E s \in 1..MaxSends, o \in FetchOutcomes : SendSettle(s, o)
  \/ HandleFile
  \/ \E o \in {"reject", "error", "summary"} : UploadSettle(o)

SpecUI == InitUI /\ [][NextUI]_vars

(* ======================= properties ======================= *)
LastReply == responses[Len(responses)].reply

Settled(g) == g.kind \in {"throw", "null", "place"}

\* the upstream answers the spec lists as failures of one marine probe
ProbeFailure(r) ==
  \/ r.kind \in {"reject", "notok", "badjson"}
  \/ r.kind = "ok" /\ r.hourly # "data"

\* C1: POST /chat sends exactly one response, with a success status and a
\* reply string, for every request body and every upstream failure: at most
\* one response is ever sent, none has an error status, and a handler that
\* has ended has sent one.
C1_AlwaysOneOkReply ==
  /\ Len(responses) <= 1
  /\ \A k \in 1..Len(responses) :
       responses[k].status = 200 /\ responses[k].reply.kind # "none"
  /\ pc \in {"done", "crashed"} => Len(responses) = 1

\* the offsets as documented, in hundredths of a degree
DocumentedOffsets == <<0, 25, -25, 50, -50, 75, -75, 100, -100>>

\* C2: the resolver issues its probes one at a time in the documented nested
\* order (latitude offset outer, longitude offset inner), each awaited before
\* the next; every probe before the last issued one returned nothing, the
\* first non-empty result is what the resolver returns, and no more than 81
\* probes are made.
C2_ProbeOrder ==
  /\ Len(probes) <= 81
  /\ \A k \in 1..Len(probes) :
       probes[k] = <<place.lat + DocumentedOffsets[((k - 1) \div 9) + 1],
                     place.lon + DocumentedOffsets[((k - 1) % 9) + 1]>>
  /\ inflight \subseteq {Len(probes)}
  /\ Len(probes) > 0 => nullCount >= Len(probes) - 1
  /\ marine.kind = "reading" =>
       /\ inflight = {}
       /\ nullCount = Len(probes) - 1
       /\ lastProbe.idx = Len(probes)
       /\ marine = lastProbe.result
       /\ <<marine.usedLat, marine.usedLon>> = probes[Len(probes)]

\* the resolver returned the reading of the very last candidate, (lat-1, lon-1)
C2_Witness ==
  /\ marine.kind = "reading"
  /\ Len(probes) = 81
  /\ probes[1] = <<place.lat, place.lon>>
  /\ probes[2] = <<place.lat, place.lon + 25>>
  /\ probes[81] = <<place.lat - 100, place.lon - 100>>

\* C3: when all 81 marine probes have failed, the land fallback is invoked,
\* with the geocoded coordinate of the place.
C3_LandAfterAllFail ==
  ( /\ Len(probes) = NumCandidates
    /\ inflight = {}
    /\ lastProbe.idx = NumCandidates
    /\ lastProbe.result.kind # "reading" )
  => landCalls = << <<place.lat, place.lon>> >>

\* C4: getLandWeather is called only after 81 marine probes that each
\* returned nothing-found.
C4_LandOnlyAfterExhaustion ==
  landCalls # <<>> => Len(probes) = NumCandidates /\ nullCount = NumCandidates

\* C5: every reading returned by tryMarine, and by the resolver, has a
\* non-null wave height or a non-null wind speed.
C5_ReadingHasWaveOrWind ==
  /\ lastProbe.result.kind = "reading" =>
       NotNullish(lastProbe.result.wave) \/ NotNullish(lastProbe.result.wind)
  /\ marine.kind = "reading" => NotNullish(marine.wave) \/ NotNullish(marine.wind)

\* C6: a probe whose HTTP call fails (exception, non-success status, empty
\* hourly series) yields nothing-found, and the resolver goes on to the next
\* candidate.
C6_ProbeNeverThrows ==
  (lastProbe.idx > 0 /\ ProbeFailure(lastProbe.resp)) =>
    /\ lastProbe.result.kind = "null"
    /\ lastProbe.idx < NumCandidates => Len(probes) = lastProbe.idx + 1

\* C7: a marine reply carries the storm-warning line exactly when the
\* reading's wave height is a number greater than 3.
C7_StormIffAbove3 ==
  \A k \in 1..Len(responses) :
    responses[k].reply.kind = "marine" =>
      /\ marine.kind = "reading"
      /\ responses[k].reply.storm <=> (marine.wave.t = "num" /\ marine.wave.v > 3)

\* a marine reply for a wave height of exactly 3: no storm warning
C7_Witness ==
  /\ pc = "done"
  /\ responses # <<>>
  /\ LastReply.kind = "marine"
  /\ marine.wave = Num(3)
  /\ ~ LastReply.storm

\* C8 (as stated): every message ends in one of three outcomes, distance
\* before weather before echo, the echo reply carrying the message.
C8_ThreeOutcomes ==
  (body.kind = "str" /\ flow # "none") =>
    LET m == MessageOf(body)
    IN /\ flow = IF distMatch(m).ok THEN "distance"
                 ELSE IF weatherMatch(m).ok THEN "weather"
                 ELSE "echo"
       /\ (flow = "echo" /\ responses # <<>>) => LastReply = Reply("echo", m)

\* C8 (amended): every request whose message is a string, missing or falsy
\* ends in one of four outcomes: the prompt reply when the trimmed message is
\* empty, else distance, else weather, else the echo of the message; the
\* reply sent belongs to the outcome chosen.
C8_FourOutcomes ==
  (body.kind # "nonstr" /\ flow # "none") =>
    LET m == MessageOf(body)
    IN /\ flow = IF m = <<>> THEN "prompt"
                 ELSE IF distMatch(m).ok THEN "distance"
                 ELSE IF weatherMatch(m).ok THEN "weather"
                 ELSE "echo"
       /\ Len(responses) <= 1
       /\ pc = "done" => Len(responses) = 1
       /\ responses # <<>> =>
            CASE flow = "prompt" -> LastReply = Reply("prompt", <<>>)
              [] flow = "echo" -> LastReply = Reply("echo", m)
              [] flow = "distance" ->
                   LastReply.kind \in {"notfound", "distance", "distance_error"}
              [] flow = "weather" ->
                   LastReply.kind \in {"notfound", "marine", "land",
                                       "weather_error", "weather_error_both"}
              [] OTHER -> FALSE

\* a message that matches both patterns has been answered by the distance flow
C8_Witness ==
  /\ pc = "done"
  /\ flow = "distance"
  /\ distMatch(MessageOf(body)).ok
  /\ weatherMatch(MessageOf(body)).ok
  /\ LastReply.kind = "distance"

\* C9: in the distance flow a lookup that yields nothing-found gives the
\* not-found reply naming that input (the from-name first), no distance is
\* computed then, and a distance reply needs two Places.
C9_NotFoundNamesInput ==
  (flow = "distance" /\ pc = "done") =>
    LET d == distMatch(MessageOf(body))
    IN /\ geo[1].kind = "null" =>
            LastReply = Reply("notfound", d.a) /\ ~ nmComputed
       /\ (geo[1].kind = "place" /\ geo[2].kind = "null") =>
            LastReply = Reply("notfound", d.b) /\ ~ nmComputed
       /\ (LastReply.kind = "distance" \/ nmComputed) =>
            geo[1].kind = "place" /\ geo[2].kind = "place"

CountBy(s, role) ==
  Cardinality({ k \in 1..Len(messages) :
                  messages[k].by = s /\ messages[k].role = role })

\* the text the transcript must show for what fetch produced
ExpectedReply(o) ==
  IF o.kind \in {"reject", "badjson"} THEN <<"Cannot reach">>
  ELSE IF o.reply # <<>> THEN o.reply
  ELSE IF o.error # <<>> THEN o.error
  ELSE <<"(no reply)">>

C11_SendState ==
  \A s \in 1..MaxSends :
    sends[s].phase # "none" =>
      IF sends[s].callMode = "chat"
      THEN /\ CountBy(s, "user") = 1
           /\ \E k \in 1..Len(messages) :
                messages[k] = Msg("user", sends[s].content, s)
           /\ sends[s].phase = "inflight" => CountBy(s, "assistant") = 0
           /\ sends[s].phase = "done" =>
                /\ CountBy(s, "assistant") = 1
                /\ \E k \in 1..Len(messages) :
                     messages[k] = Msg("assistant", ExpectedReply(sends[s].got), s)
      ELSE CountBy(s, "user") = 0 /\ CountBy(s, "assistant") = 0

\* C11: every send with non-empty text made while the app is in chat mode
\* has appended exactly one user message at once and exactly one assistant
\* message (reply, error text or "(no reply)") once its request has settled,
\* whatever sends and mode switches interleave; a send made while the app is
\* in voice mode has appended nothing; and every step leaves the old
\* transcript as a prefix of the new one.
C11_SendAppends ==
  [][ /\ C11_SendState'
      /\ Len(messages) <= Len(messages')
      /\ SubSeq(messages', 1, Len(messages)) = messages ]_vars
====
